---- MODULE Spec2Model ----
(***************************************************************************)
(* PerformanceTracker (VideoCommon/PerformanceTracker.cpp): a ring buffer  *)
(* of (duration, measurement) samples with running totals, a moving        *)
(* average, an exponentially smoothed rate, a cached standard deviation,   *)
(* a pause flag driven by the core's run state, and an optional log file.  *)
(*                                                                         *)
(* Time is counted in microseconds, and a rate in samples per microsecond. *)
(* An IEEE double is modelled on a fixed-point grid of 1/DblScale plus the *)
(* non-finite values (+inf, -inf and NaN).  Durations and measurements are *)
(* time spans: the clock never runs backwards and callers pass no negative *)
(* measurement.  A tracker that counts is built with a window length of at *)
(* least 1; SpecWindow takes GetSampleWindow over the other values too.    *)
(***************************************************************************)
EXTENDS Integers, Sequences, FiniteSets, TLC

(***************************************************************************)
(* Bounds of the model.                                                    *)
(***************************************************************************)
MAX_DT_QUEUE_SIZE == 4      \* slots of the ring (the header's capacity, scaled down)
MaxTime == 16               \* the clock stops advancing here
MaxCounts == 4              \* non-paused Count calls in one run
DblScale == 1024            \* grid of the fixed-point doubles: 1/DblScale

Ticks == {16}                             \* amounts the clock advances by
\* the ways Count is called: Count(), Count(value, false), Count(duration, true)
CountCalls ==
  {[custom_measurement |-> [has |-> FALSE, val |-> 0], is_continuous_duration |-> FALSE],
   [custom_measurement |-> [has |-> TRUE, val |-> 50], is_continuous_duration |-> FALSE],
   [custom_measurement |-> [has |-> TRUE, val |-> 4], is_continuous_duration |-> TRUE]}
\* the calls made on a tracker that logs: Count(), Count(value, false)
LogCountCalls == {call \in CountCalls : ~call.is_continuous_duration}

\* the calls made on a tracker that is read: Count(), Count(duration, true)
ReadCountCalls == {call \in CountCalls : call.is_continuous_duration <=> call.custom_measurement.has}
ReadWindowOverrides == {10}               \* sample_window_us of a tracker that is read
ThreadWindowOverrides == {8}              \* sample_window_us of a tracker used by threads
MaxPlotCounts == 6                        \* Count calls of a run that is plotted
MaxFairCounts == 1                        \* Count calls where the threads are scheduled fairly
MaxWindowInput == 16
WindowInputs == -MaxWindowInput .. MaxWindowInput   \* values an s64 or an int is given
LogWindowOverrides == {10}                \* the same, for a tracker that logs
WindowOverrides == {8, 10}                  \* sample_window_us given at construction
PerfSampleValues == {0, 10}               \* g_ActiveConfig.iPerfSampleUSec
CoreStates == {"Uninitialized", "Paused", "Running"}

VARIABLES
  m_dt_queue,            \* std::array<TimeDataPair, MAX_DT_QUEUE_SIZE>
  m_dt_queue_begin,
  m_dt_queue_end,
  m_dt_total,            \* TimeDataPair: running totals
  m_last_time,           \* TimePoint of the last sample
  m_paused,
  m_hz_avg,              \* double
  m_dt_avg,              \* DT
  m_dt_std,              \* std::optional<DT>: the cache
  m_bench_file,          \* std::ofstream: [is_open]
  m_log_name,            \* std::optional<std::string>
  m_sample_window_us,    \* std::optional<s64>
  iPerfSampleUSec,       \* g_ActiveConfig.iPerfSampleUSec
  bLogRenderTimeToFile,  \* g_ActiveConfig.bLogRenderTimeToFile
  log_file,              \* the lines of the log file on disk
  now,                   \* Clock::now()
  counted,               \* number of non-paused Count calls so far
  history,               \* the non-paused Counts since the last Reset, with their locals
  lastCount,             \* the most recent non-paused Count since the last Reset
  dropped,               \* a Count was called during the present pause
  anchor,                \* which operation last anchored the clock, and when
  observed,              \* the read or ignored notification the last step made, if any
  m_mutex,               \* std::shared_mutex: [writer, readers]
  pc                     \* per thread: the operation it is in and the next statement

trackerVars == <<m_dt_queue, m_dt_queue_begin, m_dt_queue_end, m_dt_total,
                 m_last_time, m_paused, m_hz_avg, m_dt_avg, m_dt_std,
                 m_bench_file, m_log_name, m_sample_window_us>>
envVars == <<iPerfSampleUSec, bLogRenderTimeToFile, log_file, now>>
ghostVars == <<counted, history, lastCount, dropped, anchor>>
lockVars == <<m_mutex, pc>>
vars == <<trackerVars, envVars, ghostVars, observed, lockVars>>

(***************************************************************************)
(* Values.                                                                 *)
(***************************************************************************)
None == [has |-> FALSE, val |-> 0]
Some(x) == [has |-> TRUE, val |-> x]

Pair(d, m) == [duration |-> d, measurement |-> m]
ZeroPair == Pair(0, 0)
PairAdd(p, q) == Pair(p.duration + q.duration, p.measurement + q.measurement)
PairSub(p, q) == Pair(p.duration - q.duration, p.measurement - q.measurement)

TimePointMax == 1000000

Fin(v) == [fin |-> TRUE, v |-> v]
Inf == [fin |-> FALSE, v |-> 1]
NegInf == [fin |-> FALSE, v |-> -1]
NaN == [fin |-> FALSE, v |-> 0]
IsFinite(x) == x.fin

\* p / q rounded to the nearest integer, q > 0
RoundDiv(p, q) == (2 * p + q) \div (2 * q)

\* C++ integer division (truncation toward zero), q > 0
TruncDiv(p, q) == IF p >= 0 THEN p \div q ELSE -((-p) \div q)

\* the double n / d for integers n >= 0 and d
DblDiv(n, d) ==
  IF d = 0 THEN (IF n = 0 THEN NaN ELSE Inf)
  ELSE IF d > 0 THEN Fin(RoundDiv(n * DblScale, d))
  ELSE Fin(-RoundDiv(n * DblScale, -d))

RECURSIVE Gcd(_, _)
Gcd(a, b) == IF b = 0 THEN a ELSE Gcd(b, a % b)

RECURSIVE ISqrtFrom(_, _)
ISqrtFrom(x, r) == IF (r + 1) * (r + 1) > x THEN r ELSE ISqrtFrom(x, r + 1)
ISqrt(x) == ISqrtFrom(x, 0)

(***************************************************************************)
(* The tracker as a record, so that the methods are operators on it.       *)
(***************************************************************************)
Self ==
  [m_dt_queue |-> m_dt_queue, m_dt_queue_begin |-> m_dt_queue_begin,
   m_dt_queue_end |-> m_dt_queue_end, m_dt_total |-> m_dt_total,
   m_last_time |-> m_last_time, m_paused |-> m_paused, m_hz_avg |-> m_hz_avg,
   m_dt_avg |-> m_dt_avg, m_dt_std |-> m_dt_std, m_bench_file |-> m_bench_file,
   m_log_name |-> m_log_name, m_sample_window_us |-> m_sample_window_us,
   log_file |-> log_file]

Install(s) ==
  /\ m_dt_queue' = s.m_dt_queue
  /\ m_dt_queue_begin' = s.m_dt_queue_begin
  /\ m_dt_queue_end' = s.m_dt_queue_end
  /\ m_dt_total' = s.m_dt_total
  /\ m_last_time' = s.m_last_time
  /\ m_paused' = s.m_paused
  /\ m_hz_avg' = s.m_hz_avg
  /\ m_dt_avg' = s.m_dt_avg
  /\ m_dt_std' = s.m_dt_std
  /\ m_bench_file' = s.m_bench_file
  /\ m_log_name' = s.m_log_name
  /\ m_sample_window_us' = s.m_sample_window_us
  /\ log_file' = s.log_file

(***************************************************************************)
(* Ring buffer.                                                            *)
(***************************************************************************)
IncrementIndex(i) == (i + 1) % MAX_DT_QUEUE_SIZE
DecrementIndex(i) == (i + MAX_DT_QUEUE_SIZE - 1) % MAX_DT_QUEUE_SIZE
GetDifference(b, e) == (e + MAX_DT_QUEUE_SIZE - b) % MAX_DT_QUEUE_SIZE

QueueClear(s) ==
  [s EXCEPT !.m_dt_total = ZeroPair, !.m_dt_queue_begin = 0, !.m_dt_queue_end = 0]

\* a push that advances the end index before it writes
QueuePushAfterIncrement(s, dt) ==
  [s EXCEPT !.m_dt_queue[IncrementIndex(s.m_dt_queue_end)] = dt,
            !.m_dt_queue_end = IncrementIndex(s.m_dt_queue_end)]

QueuePush(s, dt) ==
  [s EXCEPT !.m_dt_queue[s.m_dt_queue_end] = dt,
            !.m_dt_queue_end = IncrementIndex(s.m_dt_queue_end)]

QueueTop(s) == s.m_dt_queue[s.m_dt_queue_begin]

\* the state after QueuePop; the sample it returns is QueueTop of the state before
QueuePop(s) == [s EXCEPT !.m_dt_queue_begin = IncrementIndex(s.m_dt_queue_begin)]

\* the oldest sample in place of the newest
QueueBottomIsTop(s) == QueueTop(s)

QueueBottom(s) == s.m_dt_queue[DecrementIndex(s.m_dt_queue_end)]
QueueSize(s) == GetDifference(s.m_dt_queue_begin, s.m_dt_queue_end)
QueueEmpty(s) == s.m_dt_queue_begin = s.m_dt_queue_end


(***************************************************************************)
(* GetSampleWindow: the instance override, else the live configuration     *)
(* value floored at 1.                                                     *)
(***************************************************************************)
Max(a, b) == IF a >= b THEN a ELSE b

\* a window taken from the configuration as it is
GetSampleWindowUnfloored(s, perf_sample_usec) ==
  IF s.m_sample_window_us.has THEN s.m_sample_window_us.val ELSE perf_sample_usec

GetSampleWindow(s, perf_sample_usec) ==
  IF s.m_sample_window_us.has THEN s.m_sample_window_us.val
  ELSE Max(1, perf_sample_usec)

(***************************************************************************)
(* Reset.                                                                  *)
(***************************************************************************)
\* a Reset that clears the window and leaves the averages
ResetKeepsAverages(s, time) ==
  [QueueClear(s) EXCEPT !.m_last_time = time, !.m_dt_std = None]

\* a Reset that also resumes a paused tracker
ResetResumes(s, time) ==
  [QueueClear(s) EXCEPT !.m_last_time = time, !.m_hz_avg = Fin(0),
                        !.m_dt_avg = 0, !.m_dt_std = None, !.m_paused = FALSE]

\* a Reset that leaves a smoothed rate the next Count replaces
ResetRateNotFinite(s, time) ==
  [QueueClear(s) EXCEPT !.m_last_time = time, !.m_hz_avg = NaN,
                        !.m_dt_avg = 0, !.m_dt_std = None]

Reset(s, time) ==
  [QueueClear(s) EXCEPT !.m_last_time = time, !.m_hz_avg = Fin(0),
                        !.m_dt_avg = 0, !.m_dt_std = None]

(***************************************************************************)
(* SetPaused.                                                              *)
(***************************************************************************)
\* a pause that sets the flag and leaves the clock anchor alone
SetPausedFlagOnly(s, paused, time) == [s EXCEPT !.m_paused = paused]

\* a pause that also clears the window
SetPausedClears(s, paused, time) ==
  [QueueClear(s) EXCEPT !.m_paused = paused,
                        !.m_last_time = IF paused THEN TimePointMax ELSE time,
                        !.m_dt_avg = 0, !.m_dt_std = None]

\* a pause or resume that acts only where the flag changes
SetPausedOnEdge(s, paused, time) ==
  IF s.m_paused = paused THEN s
  ELSE [s EXCEPT !.m_paused = paused,
                 !.m_last_time = IF paused THEN TimePointMax ELSE time]

\* a resume that leaves the sentinel in place
SetPausedResumeKeepsAnchor(s, paused, time) ==
  [s EXCEPT !.m_paused = paused,
            !.m_last_time = IF paused THEN TimePointMax ELSE @]

SetPaused(s, paused, time) ==
  [s EXCEPT !.m_paused = paused,
            !.m_last_time = IF paused THEN TimePointMax ELSE time]

(***************************************************************************)
(* The callback given to Core::AddOnStateChangedCallback.                  *)
(***************************************************************************)
\* a callback that takes every state but Paused for Running
StateCallbackElseResumes(s, state, time) ==
  IF state = "Paused" THEN SetPaused(s, TRUE, time) ELSE SetPaused(s, FALSE, time)

StateCallback(s, state, time) ==
  IF state = "Paused" THEN SetPaused(s, TRUE, time)
  ELSE IF state = "Running" THEN SetPaused(s, FALSE, time)
  ELSE s

(***************************************************************************)
(* LogRenderTimeToFile.  The stream is opened with std::ios_base::out,     *)
(* which creates the file or truncates it; open_ok is whether the open     *)
(* succeeds.  A stream that is not open drops what is written to it.       *)
(***************************************************************************)
\* std::fixed << std::setprecision(8) << DT_ms(val).count(): the milliseconds
\* and the eight digits after the point
FormatLine(val) == [ms |-> val \div 1000, digits |-> (val % 1000) * 100000]

\* a log whose failed open throws the window away
LogFailureClearsWindow(s, val, log_enabled, open_ok) ==
  IF ~s.m_log_name.has \/ ~log_enabled THEN s
  ELSE IF ~s.m_bench_file.is_open /\ ~open_ok THEN QueueClear(s)
  ELSE IF s.m_bench_file.is_open
  THEN [s EXCEPT !.log_file = Append(@, FormatLine(val))]
  ELSE [s EXCEPT !.m_bench_file.is_open = TRUE, !.log_file = <<FormatLine(val)>>]

\* a log that opens its file anew for every line
LogReopensEachTime(s, val, log_enabled, open_ok) ==
  IF ~s.m_log_name.has \/ ~log_enabled THEN s
  ELSE IF s.m_bench_file.is_open \/ open_ok
  THEN [s EXCEPT !.m_bench_file.is_open = TRUE, !.log_file = <<FormatLine(val)>>]
  ELSE s

\* a log opened with std::ios_base::app, which keeps what the file holds
LogOpensForAppend(s, val, log_enabled, open_ok) ==
  IF ~s.m_log_name.has \/ ~log_enabled THEN s
  ELSE IF s.m_bench_file.is_open \/ open_ok
  THEN [s EXCEPT !.m_bench_file.is_open = TRUE, !.log_file = Append(@, FormatLine(val))]
  ELSE s

LogRenderTimeToFile(s, val, log_enabled, open_ok) ==
  IF ~s.m_log_name.has \/ ~log_enabled THEN s
  ELSE LET opened ==
             IF ~s.m_bench_file.is_open /\ open_ok
             THEN [s EXCEPT !.m_bench_file.is_open = TRUE, !.log_file = <<>>]
             ELSE s
       IN IF opened.m_bench_file.is_open
          THEN [opened EXCEPT !.log_file = Append(@, FormatLine(val))]
          ELSE opened

(***************************************************************************)
(* Count, statement by statement.                                          *)
(***************************************************************************)
\* const DT duration{time - m_last_time};
CountDuration(s, time) == time - s.m_last_time

\* const DT value{custom_measurement.value_or(duration)};
CountValue(custom_measurement, duration) ==
  IF custom_measurement.has THEN custom_measurement.val ELSE duration
\* a data point whose duration is always the elapsed time
CountDataPointElapsedOnly(custom_measurement, is_continuous_duration, duration) ==
  Pair(duration, CountValue(custom_measurement, duration))

\* const TimeDataPair data_point{is_continuous_duration ? value : duration, value};
CountDataPoint(custom_measurement, is_continuous_duration, duration) ==
  LET value == CountValue(custom_measurement, duration)
  IN Pair(IF is_continuous_duration THEN value ELSE duration, value)
\* a pop that leaves the running totals alone
PopForgetsTotals(s) == QueuePop(s)

\* m_dt_total -= QueuePop();
PopSubtract(s) ==
  [QueuePop(s) EXCEPT !.m_dt_total = PairSub(s.m_dt_total, QueueTop(s))]

\* QueuePush(data_point); m_dt_total += data_point;
\* if (m_dt_queue_begin == m_dt_queue_end) m_dt_total -= QueuePop();
CountPush(s, data_point) ==
  LET pushed == QueuePush(s, data_point)
      added == [pushed EXCEPT !.m_dt_total = PairAdd(pushed.m_dt_total, data_point)]
  IN IF added.m_dt_queue_begin = added.m_dt_queue_end THEN PopSubtract(added) ELSE added
\* eviction that removes at most one sample
CountEvictOnce(s, window) ==
  IF window <= s.m_dt_total.duration - QueueTop(s).duration THEN PopSubtract(s) ELSE s

\* eviction while the total, oldest sample included, covers the window
RECURSIVE CountEvictCovering(_, _)
CountEvictCovering(s, window) ==
  IF QueueSize(s) > 1 /\ window <= s.m_dt_total.duration
  THEN CountEvictCovering(PopSubtract(s), window)
  ELSE s

\* eviction that removes one sample more than the loop condition asks for
CountEvictOneMore(s, window) ==
  LET RECURSIVE Evict(_)
      Evict(q) == IF window <= q.m_dt_total.duration - QueueTop(q).duration
                  THEN Evict(PopSubtract(q)) ELSE q
      e == Evict(s)
  IN IF e # s /\ QueueSize(e) > 1 THEN PopSubtract(e) ELSE e

\* eviction that stops at two samples
RECURSIVE CountEvictKeepsTwo(_, _)
CountEvictKeepsTwo(s, window) ==
  IF QueueSize(s) > 2 /\ window <= s.m_dt_total.duration - QueueTop(s).duration
  THEN CountEvictKeepsTwo(PopSubtract(s), window)
  ELSE s

\* while (window <= m_dt_total.duration - QueueTop().duration) m_dt_total -= QueuePop();
RECURSIVE CountEvict(_, _)
CountEvict(s, window) ==
  IF window <= s.m_dt_total.duration - QueueTop(s).duration
  THEN CountEvict(PopSubtract(s), window)
  ELSE s

\* the average over the ring's capacity instead of the samples held
CountAvgOverCapacity(s) == TruncDiv(s.m_dt_total.measurement, MAX_DT_QUEUE_SIZE - 1)

\* the average rounded to the nearest tick
CountAvgRounded(s) == RoundDiv(s.m_dt_total.measurement, QueueSize(s))

\* m_dt_avg = m_dt_total.measurement / QueueSize();
CountAvg(s) == TruncDiv(s.m_dt_total.measurement, QueueSize(s))
\* the rate over the durations instead of the measurements
CountHzOfDuration(s) == DblDiv(QueueSize(s), s.m_dt_total.duration)

\* const double hz = DT_s(QueueSize()) / m_dt_total.measurement;
CountHz(s) == DblDiv(QueueSize(s), s.m_dt_total.measurement)

\* exp(x) * 4 * DblScale for x = n / d in [0, 8), by its power series
RECURSIVE ExpSeries(_, _, _, _)
ExpSeries(t, k, n, d) ==
  IF t = 0 THEN 0 ELSE t + ExpSeries((t * n) \div (d * k), k + 1, n, d)

\* 1.0 - std::exp(-(n / d)) for d > 0.  From x = 8 on exp(-x) is below half
\* a grid step and the result is the largest grid value below 1.0, until
\* exp(-x) is at most half an ulp of 1.0 (2^-54, x >= 54 ln 2 = 37.43), where
\* the double is 1.0; exp(-x) leaves the grid's range from x = -8 down,
\* where the result is -infinity
OneMinusExpNeg(n, d) ==
  LET g == Gcd(IF n >= 0 THEN n ELSE -n, d)
      nn == n \div g
      dd == d \div g
  IN IF n = 0 THEN Fin(0)
     ELSE IF nn > 0 /\ 100 * nn >= 3743 * dd THEN Fin(DblScale)
     ELSE IF nn >= 8 * dd THEN Fin(DblScale - 1)
     ELSE IF nn > 0
     THEN Fin(DblScale - RoundDiv(4 * DblScale * DblScale, ExpSeries(4 * DblScale, 1, nn, dd)))
     ELSE IF -nn >= 8 * dd THEN NegInf
     ELSE Fin(DblScale - RoundDiv(ExpSeries(4 * DblScale, 1, -nn, dd), 4))

\* the smoothing factor with the window itself as the time constant
CountAlphaOfWindow(data_point, window) ==
  OneMinusExpNeg(data_point.duration, window)

\* const DT_s rc = SAMPLE_RC_RATIO * window;
\* const double a = 1.0 - std::exp(-(DT_s(data_point.duration) / rc));
CountAlpha(data_point, window) ==
  OneMinusExpNeg(100 * data_point.duration, 33 * window)
\* m_hz_avg + a * (hz - m_hz_avg) for a finite m_hz_avg
EmaStep(hz_avg, a, hz) ==
  IF IsFinite(a) /\ IsFinite(hz)
  THEN Fin(hz_avg.v + RoundDiv(a.v * (hz.v - hz_avg.v), DblScale))
  ELSE IF IsFinite(a)
  THEN (IF hz = NaN \/ a.v = 0 THEN NaN
        ELSE IF (a.v > 0) = (hz = Inf) THEN Inf ELSE NegInf)
  ELSE IF IsFinite(hz)
  THEN (IF a = NaN \/ hz.v = hz_avg.v THEN NaN
        ELSE IF (a = Inf) = (hz.v > hz_avg.v) THEN Inf ELSE NegInf)
  ELSE IF a = NaN \/ hz = NaN THEN NaN
  ELSE IF a = hz THEN Inf ELSE NegInf

\* the filter with no reset of a non-finite average
CountEmaNoReset(hz_avg, a, hz) ==
  IF IsFinite(hz_avg) THEN EmaStep(hz_avg, a, hz) ELSE NaN

\* if (std::isfinite(m_hz_avg)) m_hz_avg += a * (hz - m_hz_avg); else m_hz_avg = hz;
CountEma(hz_avg, a, hz) ==
  IF IsFinite(hz_avg) THEN EmaStep(hz_avg, a, hz) ELSE hz

\* the locals of a Count that is not paused (lines 57-84)
CountLocals(s, custom_measurement, is_continuous_duration, time, window) ==
  LET duration == CountDuration(s, time)
      data_point == CountDataPoint(custom_measurement, is_continuous_duration, duration)
      pushed == CountPush([s EXCEPT !.m_last_time = time], data_point)
      queued == CountEvict(pushed, window)
  IN [duration |-> duration, data_point |-> data_point, queued |-> queued,
      hz |-> CountHz(queued), a |-> CountAlpha(data_point, window)]

\* ingestion that leaves the cached standard deviation in place
CountIngestKeepsCache(s, custom_measurement, is_continuous_duration, time, window, log_enabled, open_ok) ==
  LET l == CountLocals(s, custom_measurement, is_continuous_duration, time, window)
      averaged == [l.queued EXCEPT !.m_dt_avg = CountAvg(l.queued),
                                   !.m_hz_avg = CountEma(l.queued.m_hz_avg, l.a, l.hz)]
  IN LogRenderTimeToFile(averaged, l.data_point.measurement, log_enabled, open_ok)

\* lines 57-94, for a tracker that is not paused
CountIngest(s, custom_measurement, is_continuous_duration, time, window, log_enabled, open_ok) ==
  LET l == CountLocals(s, custom_measurement, is_continuous_duration, time, window)
      averaged == [l.queued EXCEPT !.m_dt_avg = CountAvg(l.queued),
                                   !.m_hz_avg = CountEma(l.queued.m_hz_avg, l.a, l.hz),
                                   !.m_dt_std = None]
  IN LogRenderTimeToFile(averaged, l.data_point.measurement, log_enabled, open_ok)
\* a Count that ingests while paused
CountIgnoresPause(s, custom_measurement, is_continuous_duration, time, window, log_enabled, open_ok) ==
  CountIngest(s, custom_measurement, is_continuous_duration, time, window,
              log_enabled, open_ok)

Count(s, custom_measurement, is_continuous_duration, time, window, log_enabled, open_ok) ==
  IF s.m_paused THEN s
  ELSE CountIngest(s, custom_measurement, is_continuous_duration, time, window,
                   log_enabled, open_ok)

(***************************************************************************)
(* Accessors.                                                              *)
(***************************************************************************)
GetHzAvg(s) == s.m_hz_avg
GetDtAvg(s) == s.m_dt_avg

\* the indices from begin up to, not including, end
RECURSIVE QueueIndices(_, _)
QueueIndices(b, e) == IF b = e THEN <<>> ELSE <<b>> \o QueueIndices(IncrementIndex(b), e)

RECURSIVE SumSquares(_, _, _)
SumSquares(s, idx, k) ==
  IF k > Len(idx) THEN 0
  ELSE LET diff == s.m_dt_queue[idx[k]].measurement - s.m_dt_avg
       IN diff * diff + SumSquares(s, idx, k + 1)

\* the value GetDtStd returns
DtStdValue(s) ==
  IF s.m_dt_std.has THEN s.m_dt_std.val
  ELSE IF QueueEmpty(s) THEN 0
  ELSE ISqrt(SumSquares(s, QueueIndices(s.m_dt_queue_begin, s.m_dt_queue_end), 1)
             \div QueueSize(s))

\* the state GetDtStd leaves: the cache holds the value returned
GetDtStd(s) == [s EXCEPT !.m_dt_std = Some(DtStdValue(s))]

GetLastRawDt(s) == IF QueueEmpty(s) THEN 0 ELSE QueueBottom(s).measurement

(***************************************************************************)
(* ImPlotPlotLines: the vertices handed to ImPlot::PlotLine, as <<x, y>>   *)
(* pairs, and the tracker as the call leaves it.  The coordinates are      *)
(* floats in milliseconds, held here on a grid of 1/1000 ms, which is one  *)
(* grid point per microsecond.                                             *)
(***************************************************************************)
\* DT_ms(v).count(), in grid points
DtMs(v) == v

\* x[points - 1] + frame_duration_ms in float: next to now - TimePoint::max()
\* a sample's duration is below half an ulp, and the sum rounds back to x
FloatAdd(x, d) == IF -x >= TimePointMax \div 2 THEN x ELSE x + d

\* a loop that stops at slot 0 instead of going on at the last slot
RECURSIVE PlotWalkNoWrap(_, _, _, _)
PlotWalkNoWrap(s, i, end, points) ==
  IF i = end THEN points
  ELSE LET x == points[Len(points)][1]
           stepped == points \o <<<<x, DtMs(s.m_dt_queue[i].measurement)>>,
                                  <<FloatAdd(x, DtMs(s.m_dt_queue[i].duration)),
                                    DtMs(s.m_dt_queue[i].measurement)>>>>
       IN IF i = 0 THEN stepped ELSE PlotWalkNoWrap(s, i - 1, end, stepped)

\* the loop of lines 169-181, from slot i down to, not including, slot end
RECURSIVE PlotWalk(_, _, _, _)
PlotWalk(s, i, end, points) ==
  IF i = end THEN points
  ELSE LET frame_duration_ms == DtMs(s.m_dt_queue[i].duration)
           frame_value_ms == DtMs(s.m_dt_queue[i].measurement)
           x == points[Len(points)][1]
       IN PlotWalk(s, DecrementIndex(i), end,
                   points \o <<<<x, frame_value_ms>>,
                               <<FloatAdd(x, frame_duration_ms), frame_value_ms>>>>)

\* a plot accessor that consumes the samples it draws
ImPlotPlotLinesDrains(s, time) ==
  IF QueueEmpty(s) THEN [self |-> s, plotted |-> FALSE, points |-> <<>>]
  ELSE [self |-> QueueClear(s), plotted |-> TRUE,
        points |-> PlotWalk(s, DecrementIndex(s.m_dt_queue_end),
                            DecrementIndex(s.m_dt_queue_begin),
                            <<<<0, DtMs(QueueBottom(s).measurement)>>,
                              <<DtMs(time - s.m_last_time), DtMs(QueueBottom(s).measurement)>>>>)]

\* a plot that leaves out the time since the last sample
ImPlotPlotLinesNoElapsed(s, time) ==
  IF QueueEmpty(s) THEN [self |-> s, plotted |-> FALSE, points |-> <<>>]
  ELSE [self |-> s, plotted |-> TRUE,
        points |-> PlotWalk(s, DecrementIndex(s.m_dt_queue_end),
                            DecrementIndex(s.m_dt_queue_begin),
                            <<<<0, DtMs(QueueBottom(s).measurement)>>,
                              <<0, DtMs(QueueBottom(s).measurement)>>>>)]

ImPlotPlotLines(s, time) ==
  IF QueueEmpty(s) THEN [self |-> s, plotted |-> FALSE, points |-> <<>>]
  ELSE LET update_time == time - s.m_last_time
           y0 == DtMs(QueueBottom(s).measurement)
           begin == DecrementIndex(s.m_dt_queue_end)
           end == DecrementIndex(s.m_dt_queue_begin)
       IN [self |-> s, plotted |-> TRUE,
           points |-> PlotWalk(s, begin, end, <<<<0, y0>>, <<DtMs(update_time), y0>>>>)]
(***************************************************************************)
(* The state after construction: the members' initial values, then Reset() *)
(* (lines 21-32).  The two ways the tracker is built: with a log name and  *)
(* a window of its own, or with no log name on the configured window.      *)
(***************************************************************************)
LogNames == {"render_times.txt"}
OldLog == <<[ms |-> 16, digits |-> 66666667]>>   \* a log file left by an earlier run

\* built with no log and a window of its own
Instances ==
  {[log_name |-> None, sample_window_us |-> Some(w)] : w \in WindowOverrides}

\* built with no log, on the configured window
CfgInstances == {[log_name |-> None, sample_window_us |-> None]}

\* built with no log and the one window ReadWindowOverrides names
ReadInstances ==
  {[log_name |-> None, sample_window_us |-> Some(w)] : w \in ReadWindowOverrides}

\* built with no log and the window ThreadWindowOverrides names
ThreadInstances ==
  {[log_name |-> None, sample_window_us |-> Some(w)] : w \in ThreadWindowOverrides}

\* built with no log, on the configured window or with any override
WindowInstances ==
  {[log_name |-> None, sample_window_us |-> None]}
    \cup {[log_name |-> None, sample_window_us |-> Some(w)] : w \in WindowInputs}

\* built with a log name, over a log file left by an earlier run, or with none
LogInstances ==
  {[log_name |-> n, sample_window_us |-> Some(w)] :
     n \in {Some(name) : name \in LogNames} \cup {None}, w \in LogWindowOverrides}

Constructed(log_name, sample_window_us, time) ==
  Reset([m_dt_queue |-> [i \in 0 .. MAX_DT_QUEUE_SIZE - 1 |-> ZeroPair],
         m_dt_queue_begin |-> 0, m_dt_queue_end |-> 0, m_dt_total |-> ZeroPair,
         m_last_time |-> 0, m_paused |-> FALSE, m_hz_avg |-> Fin(0),
         m_dt_avg |-> 0, m_dt_std |-> None,
         m_bench_file |-> [is_open |-> FALSE],
         m_log_name |-> log_name, m_sample_window_us |-> sample_window_us,
         log_file |-> <<>>], time)

\* the clock was anchored at a sample or a Reset
Anchored(time) == [kind |-> "sample", at |-> time, gap |-> FALSE, reset_at |-> -1]

\* the last step made no call that is observed
NoCall == [op |-> "none", ret |-> <<>>]

\* the threads that call into the tracker: the emulation thread that counts,
\* the host thread that delivers run-state changes, and a user-interface
\* thread that reads
Threads == {"cpu", "host", "ui"}
NoThread == "nobody"
Unlocked == [writer |-> NoThread, readers |-> {}]
\* a thread is in no operation; i is the statement of Program(op) it is at
NoArgs == [custom_measurement |-> None, is_continuous_duration |-> FALSE, paused |-> FALSE]
NoLocals == [window |-> 0, data_point |-> ZeroPair]
Idle == [op |-> "idle", i |-> 0, arg |-> NoArgs, local |-> NoLocals]

NoCount ==
  [ran |-> FALSE, custom |-> None, cont |-> FALSE, wall |-> 0,
   after_resume |-> FALSE, after_gap |-> FALSE,
   window |-> 0, duration |-> 0, data |-> ZeroPair, hz |-> Fin(0), a |-> Fin(0),
   prior_size |-> 0, prior_hz_avg |-> Fin(0), filled |-> FALSE,
   open_failed |-> FALSE, after_running |-> FALSE, since_reset |-> -1]

InitOf(instances, log_enabled) ==
  /\ now = 0
  /\ iPerfSampleUSec = 10
  /\ bLogRenderTimeToFile = log_enabled
  /\ \E inst \in instances :
       LET s == Constructed(inst.log_name, inst.sample_window_us, 0)
       IN /\ m_dt_queue = s.m_dt_queue
          /\ m_dt_queue_begin = s.m_dt_queue_begin
          /\ m_dt_queue_end = s.m_dt_queue_end
          /\ m_dt_total = s.m_dt_total
          /\ m_last_time = s.m_last_time
          /\ m_paused = s.m_paused
          /\ m_hz_avg = s.m_hz_avg
          /\ m_dt_avg = s.m_dt_avg
          /\ m_dt_std = s.m_dt_std
          /\ m_bench_file = s.m_bench_file
          /\ m_log_name = s.m_log_name
          /\ m_sample_window_us = s.m_sample_window_us
          /\ log_file = IF inst.log_name.has THEN OldLog ELSE <<>>
  /\ counted = 0
  /\ history = <<>>
  /\ lastCount = NoCount
  /\ dropped = FALSE
  /\ anchor = Anchored(0)
  /\ observed = NoCall
  /\ m_mutex = Unlocked
  /\ pc = [t \in Threads |-> Idle]

Init == InitOf(Instances, FALSE)
InitRead == InitOf(ReadInstances, FALSE)
InitThreads == InitOf(ThreadInstances, FALSE)
InitWindow == InitOf(WindowInstances, FALSE)
InitCfg == InitOf(CfgInstances, FALSE)
InitLog == InitOf(LogInstances, TRUE)

(***************************************************************************)
(* The environment: the clock and the live configuration.  A configuration *)
(* value changes only where this tracker reads it.                         *)
(***************************************************************************)
Tick(d) ==
  /\ now + d <= MaxTime
  /\ now' = now + d
  /\ observed' = NoCall
  /\ UNCHANGED <<trackerVars, iPerfSampleUSec, bLogRenderTimeToFile, log_file, ghostVars,
                 lockVars>>

SetPerfSampleUSec(v) ==
  /\ ~m_sample_window_us.has
  /\ v # iPerfSampleUSec
  /\ iPerfSampleUSec' = v
  /\ observed' = NoCall
  /\ UNCHANGED <<trackerVars, bLogRenderTimeToFile, log_file, now, ghostVars, lockVars>>

SetLogRenderTimeToFile(b) ==
  /\ m_log_name.has
  /\ b # bLogRenderTimeToFile
  /\ bLogRenderTimeToFile' = b
  /\ observed' = NoCall
  /\ UNCHANGED <<trackerVars, iPerfSampleUSec, log_file, now, ghostVars, lockVars>>

(***************************************************************************)
(* The tracker's operations.                                               *)
(***************************************************************************)
DoReset ==
  /\ Install(Reset(Self, now))
  /\ history' = <<>>
  /\ lastCount' = NoCount
  /\ dropped' = FALSE
  /\ anchor' = IF anchor.kind = "pause" THEN [anchor EXCEPT !.reset_at = now]
               ELSE Anchored(now)
  /\ observed' = NoCall
  /\ UNCHANGED <<iPerfSampleUSec, bLogRenderTimeToFile, now, counted, lockVars>>

\* whether this Count would try to open the log file
OpensLog == /\ ~m_paused /\ m_log_name.has /\ bLogRenderTimeToFile
            /\ ~m_bench_file.is_open

\* Count, in a run of at most max Counts that are not paused
DoCountUpTo(max, custom_measurement, is_continuous_duration, open_ok) ==
  LET window == GetSampleWindow(Self, iPerfSampleUSec)
      l == CountLocals(Self, custom_measurement, is_continuous_duration, now, window)
  IN /\ m_paused \/ counted < max
     /\ open_ok \/ OpensLog
     /\ Install(Count(Self, custom_measurement, is_continuous_duration, now, window,
                      bLogRenderTimeToFile, open_ok))
     /\ IF m_paused
        THEN /\ dropped' = TRUE
             /\ UNCHANGED <<counted, history, lastCount, anchor>>
        ELSE /\ counted' = counted + 1
             /\ history' = Append(history, [data |-> l.data_point, window |-> window])
             /\ lastCount' =
                  [ran |-> TRUE, custom |-> custom_measurement,
                   cont |-> is_continuous_duration, wall |-> now - anchor.at,
                   after_resume |-> anchor.kind = "resume",
                   after_gap |-> anchor.gap,
                   window |-> window, duration |-> l.duration,
                   data |-> l.data_point, hz |-> l.hz, a |-> l.a,
                   prior_size |-> QueueSize(Self), prior_hz_avg |-> m_hz_avg,
                   filled |-> QueueSize(Self) = MAX_DT_QUEUE_SIZE - 1,
                   open_failed |-> OpensLog /\ ~open_ok,
                   after_running |-> anchor.kind = "running" /\ anchor.gap,
                   since_reset |-> IF anchor.kind = "resume" /\ anchor.reset_at >= 0
                                   THEN now - anchor.reset_at ELSE -1]
             /\ dropped' = FALSE
             /\ anchor' = Anchored(now)
     /\ observed' = NoCall
     /\ UNCHANGED <<iPerfSampleUSec, bLogRenderTimeToFile, now, lockVars>>

\* the callback registered with Core::AddOnStateChangedCallback (lines 23-28)
OnStateChanged(state) ==
  /\ Install(StateCallback(Self, state, now))
  /\ anchor' = IF state = "Paused"
               THEN (IF anchor.kind = "pause" THEN anchor
                     ELSE [kind |-> "pause", at |-> now, gap |-> FALSE, reset_at |-> -1])
               ELSE IF state = "Running"
               THEN (IF anchor.kind = "pause"
                     THEN [kind |-> "resume", at |-> now, gap |-> now > anchor.at,
                           reset_at |-> anchor.reset_at]
                     ELSE [kind |-> "running", at |-> now, gap |-> now > anchor.at,
                           reset_at |-> -1])
               ELSE anchor
  /\ dropped' = IF state = "Running" THEN FALSE ELSE dropped
  /\ observed' = IF state \in {"Paused", "Running"} THEN NoCall
                 ELSE [op |-> "OnStateChanged", ret |-> <<state>>]
  /\ UNCHANGED <<iPerfSampleUSec, bLogRenderTimeToFile, now, counted, history,
                 lastCount, lockVars>>

DoGetDtStd ==
  /\ Install(GetDtStd(Self))
  /\ observed' = NoCall
  /\ UNCHANGED <<iPerfSampleUSec, bLogRenderTimeToFile, now, ghostVars, lockVars>>

\* the accessors under the shared lock: they return a value and assign to
\* no member
DoGetHzAvg ==
  /\ observed' = [op |-> "GetHzAvg", ret |-> <<GetHzAvg(Self)>>]
  /\ UNCHANGED <<trackerVars, envVars, ghostVars, lockVars>>

DoGetDtAvg ==
  /\ observed' = [op |-> "GetDtAvg", ret |-> <<GetDtAvg(Self)>>]
  /\ UNCHANGED <<trackerVars, envVars, ghostVars, lockVars>>

DoGetLastRawDt ==
  /\ observed' = [op |-> "GetLastRawDt", ret |-> <<GetLastRawDt(Self)>>]
  /\ UNCHANGED <<trackerVars, envVars, ghostVars, lockVars>>

DoImPlotPlotLines ==
  LET call == ImPlotPlotLines(Self, now)
  IN /\ Install(call.self)
     /\ observed' = [op |-> "ImPlotPlotLines", ret |-> call.points]
     /\ UNCHANGED <<iPerfSampleUSec, bLogRenderTimeToFile, now, ghostVars, lockVars>>

DoGetSampleWindow ==
  /\ observed' = [op |-> "GetSampleWindow", ret |-> <<GetSampleWindow(Self, iPerfSampleUSec)>>]
  /\ UNCHANGED <<trackerVars, envVars, ghostVars, lockVars>>

DoCount(custom_measurement, is_continuous_duration, open_ok) ==
  DoCountUpTo(MaxCounts, custom_measurement, is_continuous_duration, open_ok)

Operation(calls) ==
  \/ \E d \in Ticks : Tick(d)
  \/ DoReset
  \/ \E call \in calls, open_ok \in BOOLEAN :
       DoCount(call.custom_measurement, call.is_continuous_duration, open_ok)
  \/ \E state \in CoreStates : OnStateChanged(state)
  \/ DoGetDtStd

Next == Operation(CountCalls)

NextCfg ==
  \/ Operation(CountCalls)
  \/ \E v \in PerfSampleValues : SetPerfSampleUSec(v)

NextLog ==
  \/ Operation(LogCountCalls)
  \/ \E b \in BOOLEAN : SetLogRenderTimeToFile(b)

\* trackers with a window of their own
Spec == Init /\ [][Next]_vars

\* a tracker on the configured window, which changes under it
SpecCfg == InitCfg /\ [][NextCfg]_vars

\* a tracker that logs
SpecLog == InitLog /\ [][NextLog]_vars

(***************************************************************************)
(* The operations statement by statement, called from several threads.    *)
(* std::unique_lock takes m_mutex exclusively and std::shared_lock takes   *)
(* it shared; both release it when the operation returns.                  *)
(***************************************************************************)
Operations ==
  {"Reset", "Count", "SetPaused", "GetHzAvg", "GetDtAvg", "GetDtStd", "GetLastRawDt",
   "ImPlotPlotLines"}

\* what each thread calls
ThreadOps(t) ==
  IF t = "cpu" THEN {"Count", "Reset"}
  ELSE IF t = "host" THEN {"SetPaused", "GetDtStd", "GetHzAvg"}
  ELSE {"GetHzAvg", "GetDtAvg", "GetDtStd", "GetLastRawDt", "ImPlotPlotLines"}

\* what each thread calls where the threads are scheduled fairly
FairThreadOps(t) ==
  IF t = "cpu" THEN {"Count", "Reset"}
  ELSE IF t = "host" THEN {"SetPaused", "GetHzAvg"}
  ELSE {"GetHzAvg", "GetDtStd"}

\* the calls made from the threads: Count(duration, true)
ThreadCountCalls == {call \in CountCalls : call.is_continuous_duration}

\* every operation locks with std::shared_lock
LockKindAllShared(op) == "shared"

\* GetDtStd locks with std::shared_lock, like the other accessors
LockKindStdShared(op) ==
  IF op \in {"Reset", "Count", "SetPaused"} THEN "unique" ELSE "shared"

\* the lock each operation declares
LockKind(op) ==
  IF op \in {"Reset", "Count", "SetPaused", "GetDtStd"} THEN "unique" ELSE "shared"

\* a Reset that reads the average it clears through GetDtAvg, lock held
ProgramResetReenters(op) ==
  IF op = "Reset" THEN <<"lock", "clear", "lock", "anchor", "unlock">>
  ELSE IF op = "Count"
  THEN <<"lock", "check", "sample", "push", "total", "full", "evict", "avg", "ema",
         "cache", "log", "unlock">>
  ELSE IF op = "SetPaused" THEN <<"lock", "flag", "time", "unlock">>
  ELSE IF op = "GetDtStd" THEN <<"lock", "compute", "unlock">>
  ELSE <<"lock", "read", "unlock">>

\* the statements of each operation, from taking the lock to releasing it
Program(op) ==
  IF op = "Reset" THEN <<"lock", "clear", "anchor", "unlock">>
  ELSE IF op = "Count"
  THEN <<"lock", "check", "sample", "push", "total", "full", "evict", "avg", "ema",
         "cache", "log", "unlock">>
  ELSE IF op = "SetPaused" THEN <<"lock", "flag", "time", "unlock">>
  ELSE IF op = "GetDtStd" THEN <<"lock", "compute", "unlock">>
  ELSE <<"lock", "read", "unlock">>

Statement(t) == IF pc[t].op = "idle" THEN "idle" ELSE Program(pc[t].op)[pc[t].i]
Holds(t) == m_mutex.writer = t \/ t \in m_mutex.readers

\* std::shared_mutex grants an exclusive lock when nobody holds it and a
\* shared lock when nobody holds it exclusively; a thread that asks for a
\* lock it already holds is never granted it
CanLock(t) ==
  /\ ~Holds(t)
  /\ m_mutex.writer = NoThread
  /\ LockKind(pc[t].op) = "unique" => m_mutex.readers = {}

Goto(t, i) == pc' = [pc EXCEPT ![t].i = i]
Advance(t) == Goto(t, pc[t].i + 1)

\* a thread calls an operation
Call(t, op, arg) ==
  /\ pc[t] = Idle
  /\ pc' = [pc EXCEPT ![t] = [op |-> op, i |-> 1, arg |-> arg, local |-> NoLocals]]
  /\ observed' = NoCall
  /\ UNCHANGED <<trackerVars, envVars, ghostVars, m_mutex>>

CallArgs(op) ==
  IF op = "Count"
  THEN {[custom_measurement |-> call.custom_measurement,
         is_continuous_duration |-> call.is_continuous_duration, paused |-> FALSE] :
          call \in ThreadCountCalls}
  ELSE IF op = "SetPaused"
  THEN {[custom_measurement |-> None, is_continuous_duration |-> FALSE, paused |-> b] :
          b \in BOOLEAN}
  ELSE {NoArgs}

Lock(t) ==
  /\ Statement(t) = "lock"
  /\ CanLock(t)
  /\ m_mutex' = IF LockKind(pc[t].op) = "unique"
                THEN [m_mutex EXCEPT !.writer = t]
                ELSE [m_mutex EXCEPT !.readers = @ \cup {t}]
  /\ Advance(t)
  /\ observed' = NoCall
  /\ UNCHANGED <<trackerVars, envVars, ghostVars>>

\* the lock object leaves scope as the operation returns
Unlock(t) ==
  /\ Statement(t) = "unlock"
  /\ m_mutex' = [writer |-> IF m_mutex.writer = t THEN NoThread ELSE m_mutex.writer,
                 readers |-> m_mutex.readers \ {t}]
  /\ pc' = [pc EXCEPT ![t] = Idle]
  /\ observed' = NoCall
  /\ UNCHANGED <<trackerVars, envVars, ghostVars>>

ResetStep(t) ==
  /\ pc[t].op = "Reset"
  /\ Statement(t) \in {"clear", "anchor"}
  /\ Install(IF Statement(t) = "clear" THEN QueueClear(Self)
             ELSE [Self EXCEPT !.m_last_time = now, !.m_hz_avg = Fin(0),
                               !.m_dt_avg = 0, !.m_dt_std = None])
  /\ Advance(t)
  /\ observed' = NoCall
  /\ UNCHANGED <<iPerfSampleUSec, bLogRenderTimeToFile, now, ghostVars, m_mutex>>

SetPausedStep(t) ==
  /\ pc[t].op = "SetPaused"
  /\ Statement(t) \in {"flag", "time"}
  /\ Install(IF Statement(t) = "flag" THEN [Self EXCEPT !.m_paused = pc[t].arg.paused]
             ELSE [Self EXCEPT !.m_last_time = IF m_paused THEN TimePointMax ELSE now])
  /\ Advance(t)
  /\ observed' = NoCall
  /\ UNCHANGED <<iPerfSampleUSec, bLogRenderTimeToFile, now, ghostVars, m_mutex>>

\* the tracker after one statement of Count
CountStatement(s, stmt, arg, local, time, window, log_enabled) ==
  IF stmt = "sample" THEN [s EXCEPT !.m_last_time = time]
  ELSE IF stmt = "push" THEN QueuePush(s, local.data_point)
  ELSE IF stmt = "total" THEN [s EXCEPT !.m_dt_total = PairAdd(@, local.data_point)]
  ELSE IF stmt = "full"
  THEN (IF s.m_dt_queue_begin = s.m_dt_queue_end THEN PopSubtract(s) ELSE s)
  ELSE IF stmt = "evict"
  THEN (IF local.window <= s.m_dt_total.duration - QueueTop(s).duration
        THEN PopSubtract(s) ELSE s)
  ELSE IF stmt = "avg" THEN [s EXCEPT !.m_dt_avg = CountAvg(s)]
  ELSE IF stmt = "ema"
  THEN [s EXCEPT !.m_hz_avg = CountEma(@, CountAlpha(local.data_point, local.window),
                                       CountHz(s))]
  ELSE IF stmt = "cache" THEN [s EXCEPT !.m_dt_std = None]
  ELSE IF stmt = "log"
  THEN LogRenderTimeToFile(s, local.data_point.measurement, log_enabled, TRUE)
  ELSE s

CountStep(t) ==
  LET stmt == Statement(t)
      after == CountStatement(Self, stmt, pc[t].arg, pc[t].local, now,
                              GetSampleWindow(Self, iPerfSampleUSec), bLogRenderTimeToFile)
      sampled ==
        [window |-> GetSampleWindow(Self, iPerfSampleUSec),
         data_point |-> CountDataPoint(pc[t].arg.custom_measurement,
                                       pc[t].arg.is_continuous_duration,
                                       CountDuration(Self, now))]
  IN /\ pc[t].op = "Count"
     /\ stmt \notin {"lock", "unlock"}
     /\ Install(after)
     /\ pc' = [pc EXCEPT
                ![t].i = IF stmt = "check" /\ m_paused THEN Len(Program("Count"))
                         ELSE IF stmt = "evict" /\ after # Self THEN @
                         ELSE @ + 1,
                ![t].local = IF stmt = "sample" THEN sampled ELSE @]
     /\ counted' = IF stmt = "push" THEN counted + 1 ELSE counted
     /\ observed' = NoCall
     /\ UNCHANGED <<iPerfSampleUSec, bLogRenderTimeToFile, now, history, lastCount,
                    dropped, anchor, m_mutex>>

GetDtStdStep(t) ==
  /\ pc[t].op = "GetDtStd"
  /\ Statement(t) = "compute"
  /\ Install(GetDtStd(Self))
  /\ Advance(t)
  /\ observed' = [op |-> "GetDtStd", ret |-> <<DtStdValue(Self)>>]
  /\ UNCHANGED <<iPerfSampleUSec, bLogRenderTimeToFile, now, ghostVars, m_mutex>>

\* what a read accessor returns
ReadValue(op) ==
  IF op = "GetHzAvg" THEN <<GetHzAvg(Self)>>
  ELSE IF op = "GetDtAvg" THEN <<GetDtAvg(Self)>>
  ELSE IF op = "GetLastRawDt" THEN <<GetLastRawDt(Self)>>
  ELSE ImPlotPlotLines(Self, now).points

ReadStep(t) ==
  /\ Statement(t) = "read"
  /\ Advance(t)
  /\ observed' = [op |-> pc[t].op, ret |-> ReadValue(pc[t].op)]
  /\ UNCHANGED <<trackerVars, envVars, ghostVars, m_mutex>>

\* the steps a thread takes once it has called
Run(t) ==
  \/ Lock(t)
  \/ ResetStep(t)
  \/ SetPausedStep(t)
  \/ CountStep(t)
  \/ GetDtStdStep(t)
  \/ ReadStep(t)
  \/ Unlock(t)

\* a thread calls one of the operations in ops, Count max times at most
ThreadCalls(t, ops, max) ==
  \E op \in ops : \E arg \in CallArgs(op) :
    /\ op = "Count" => counted < max
    /\ Call(t, op, arg)

NextThreads ==
  \/ \E t \in Threads : ThreadCalls(t, ThreadOps(t), MaxCounts)
  \/ \E t \in Threads : Run(t)

NextThreadsFair ==
  \/ \E t \in Threads : ThreadCalls(t, FairThreadOps(t), MaxFairCounts)
  \/ \E t \in Threads : Run(t)

\* several threads in the operations of one tracker
SpecThreads == InitThreads /\ [][NextThreads]_vars

\* the same under fair scheduling: a thread that has called keeps running,
\* and a thread that could take the lock again and again does take it.
\* Whether it calls at all is up to the thread
SpecThreadsFair ==
  /\ InitThreads
  /\ [][NextThreadsFair]_vars
  /\ \A t \in Threads : SF_vars(Run(t))

\* a tracker that is read while it counts
NextRead ==
  \/ Operation(ReadCountCalls)
  \/ DoGetHzAvg
  \/ DoGetDtAvg
  \/ DoGetLastRawDt
  \/ DoImPlotPlotLines

SpecRead == InitRead /\ [][NextRead]_vars

\* a tracker that is plotted over runs long enough for the window to pass
\* the end of the ring more than once
NextPlot ==
  \/ \E d \in Ticks : Tick(d)
  \/ DoReset
  \/ \E call \in ReadCountCalls :
       DoCountUpTo(MaxPlotCounts, call.custom_measurement, call.is_continuous_duration, TRUE)
  \/ DoImPlotPlotLines

SpecPlot == InitRead /\ [][NextPlot]_vars

\* GetSampleWindow over the values an override and the configuration can take
NextWindow ==
  \/ \E v \in WindowInputs : SetPerfSampleUSec(v)
  \/ DoGetSampleWindow

SpecWindow == InitWindow /\ [][NextWindow]_vars
(***************************************************************************)
(* What the claims are stated over.                                        *)
(***************************************************************************)
\* the samples the window holds, oldest first
QueueSeq(s) ==
  LET idx == QueueIndices(s.m_dt_queue_begin, s.m_dt_queue_end)
  IN [k \in 1 .. Len(idx) |-> s.m_dt_queue[idx[k]]]

RECURSIVE SumPairs(_)
SumPairs(seq) == IF seq = <<>> THEN ZeroPair ELSE PairAdd(Head(seq), SumPairs(Tail(seq)))

\* the last n elements of seq
LastN(seq, n) == SubSeq(seq, Len(seq) - n + 1, Len(seq))

IsSuffix(short, long) ==
  Len(short) <= Len(long) /\ LastN(long, Len(short)) = short

HistoryData == [k \in 1 .. Len(history) |-> history[k].data]

\* C1: the running totals are the exact sums of duration and of measurement
\* over the samples the ring holds between begin and end, in every state
C1_TotalsAreExactSums == m_dt_total = SumPairs(QueueSeq(Self))

\* a wrapped window that has been pushed to and evicted from
C1_Witness ==
  /\ lastCount.ran
  /\ m_dt_queue_end < m_dt_queue_begin
  /\ m_dt_total.duration > 0
  /\ m_dt_total.measurement > m_dt_total.duration

\* C2: the window never holds more samples than the ring has room for, the
\* samples it holds are the most recent ones pushed (no live slot was
\* overwritten; a push that fills the ring drops the oldest sample, totals
\* included), and it is not empty once a sample was counted
C2_RingKeepsLiveSamples ==
  /\ QueueSize(Self) < MAX_DT_QUEUE_SIZE
  /\ QueueSize(Self) <= Len(history)
  /\ QueueSeq(Self) = LastN(HistoryData, QueueSize(Self))
  /\ m_dt_total = SumPairs(LastN(HistoryData, QueueSize(Self)))
  /\ lastCount.ran => QueueSize(Self) >= 1

\* the last Count pushed into a ring with one free slot, and exactly the
\* oldest sample was dropped
C2_Witness ==
  /\ lastCount.ran
  /\ lastCount.filled
  /\ QueueSize(Self) = MAX_DT_QUEUE_SIZE - 1

\* C3: a non-paused Count whose sample's duration exceeds the window length
\* leaves that sample alone in the window, the totals equal to it
C3_LongSampleAlone ==
  (lastCount.ran /\ lastCount.data.duration > lastCount.window)
    => /\ QueueSeq(Self) = <<lastCount.data>>
       /\ m_dt_total = lastCount.data

\* a long sample counted into a window that held two samples or more
C3_Witness ==
  /\ lastCount.ran
  /\ lastCount.data.duration > lastCount.window
  /\ lastCount.prior_size >= 2

\* the measurement and the duration a Count is to store, from its arguments
\* and the wall-clock time since the clock was last anchored
ExpectedSample(c) ==
  LET measurement == IF c.custom.has THEN c.custom.val ELSE c.wall
  IN Pair(IF c.cont THEN measurement ELSE c.wall, measurement)

C4_Scenario ==
  /\ lastCount.ran
  /\ lastCount.prior_size = 0
  /\ lastCount.custom = Some(50)
  /\ ~lastCount.cont
  /\ lastCount.wall = 16

\* C4: a non-paused Count stores (duration, measurement) with measurement the
\* custom measurement if given, else the elapsed time, and duration the
\* measurement if is_continuous_duration, else the elapsed time; with 50,
\* false and 16 elapsed on an empty window it stores (16, 50), average 50
C4_StoredSample ==
  /\ lastCount.ran => /\ QueueBottom(Self) = ExpectedSample(lastCount)
                      /\ lastCount.data = ExpectedSample(lastCount)
  /\ C4_Scenario => /\ QueueSeq(Self) = <<Pair(16, 50)>>
                    /\ GetDtAvg(Self) = 50

C4_Witness == C4_Scenario /\ QueueBottom(Self) = Pair(16, 50)

\* C5 as claimed: the rate of a Count is the sample count over the total
\* duration; one sample (16, 50) gives 1/16
C5_RateFromDuration ==
  lastCount.ran
    => /\ lastCount.hz = DblDiv(QueueSize(Self), m_dt_total.duration)
       /\ C4_Scenario => lastCount.hz = DblDiv(1, 16)

\* C5 amended: the rate of a Count is the sample count over the total
\* measurement; one sample (16, 50) gives 1/50, not 1/16
C5_RateFromMeasurement ==
  lastCount.ran
    => /\ lastCount.hz = DblDiv(QueueSize(Self), m_dt_total.measurement)
       /\ C4_Scenario => /\ lastCount.hz = DblDiv(1, 50)
                         /\ lastCount.hz # DblDiv(1, 16)

C5_Witness == C4_Scenario /\ lastCount.hz = DblDiv(1, 50)

\* C6 as claimed: a zero total gives the rate 0, no Count produces a
\* non-finite rate, and GetHzAvg is never non-finite
C6_RateAlwaysFinite ==
  /\ IsFinite(GetHzAvg(Self))
  /\ lastCount.ran
       => /\ IsFinite(lastCount.hz)
          /\ m_dt_total.measurement = 0 => lastCount.hz = Fin(0)

\* C6 amended: a zero total measurement gives the rate +infinity and any
\* other total a finite rate; after a Count GetHzAvg is finite exactly when
\* that Count's rate is, and a non-finite average is replaced by the rate
C6_ZeroTotalGivesInfinity ==
  lastCount.ran
    => /\ m_dt_total.measurement = 0 => lastCount.hz = Inf
       /\ m_dt_total.measurement # 0 => IsFinite(lastCount.hz)
       /\ IsFinite(GetHzAvg(Self)) <=> IsFinite(lastCount.hz)
       /\ ~IsFinite(lastCount.prior_hz_avg) => GetHzAvg(Self) = lastCount.hz

\* a Count with a finite rate that found the average non-finite
C6_Witness ==
  /\ lastCount.ran
  /\ ~IsFinite(lastCount.prior_hz_avg)
  /\ IsFinite(lastCount.hz)
  /\ lastCount.hz.v > 0

C7_Scenario ==
  /\ Len(history) = 3
  /\ \A k \in 1 .. 3 : history[k] = [data |-> Pair(4, 4), window |-> 10]

\* C7 as claimed: with window 10, three Counts of duration 4 on an empty
\* window leave two samples, total duration 8, average 4
C7_OldestEvicted ==
  C7_Scenario
    => /\ QueueSeq(Self) = <<Pair(4, 4), Pair(4, 4)>>
       /\ m_dt_total.duration = 8
       /\ GetDtAvg(Self) = 4
       /\ QueueSize(Self) = 2

\* C7 amended: they leave all three samples, total duration 12, average 4:
\* 12 - 4 = 8 is below the window, so nothing is evicted
C7_NothingEvicted ==
  C7_Scenario
    => /\ QueueSeq(Self) = <<Pair(4, 4), Pair(4, 4), Pair(4, 4)>>
       /\ m_dt_total.duration = 12
       /\ GetDtAvg(Self) = 4
       /\ QueueSize(Self) = 3

C7_Witness == C7_Scenario /\ QueueSize(Self) = 3

PausedCount ==
  /\ m_paused
  /\ \E call \in CountCalls, open_ok \in BOOLEAN :
       DoCount(call.custom_measurement, call.is_continuous_duration, open_ok)

\* the samples a step adds to the window: the data point of a Count that ran
Ingested == IF counted' # counted THEN <<lastCount'.data>> ELSE <<>>

\* C8: a Count while paused leaves the ring, the indices, the totals, the
\* averages, the cache, last_sample_time and the log file as they were, and
\* a sample enters the window only by a Count that ran unpaused
C8_PausedCountIsNoOp ==
  [][/\ UNCHANGED <<trackerVars, log_file>> \/ ~PausedCount
     /\ \/ UNCHANGED <<m_dt_queue, m_dt_queue_begin, m_dt_queue_end>>
        \/ IsSuffix(QueueSeq(Self)', QueueSeq(Self) \o Ingested)]_vars

\* a Count was dropped by a paused tracker with samples, a cache and a log
C8_Witness ==
  /\ dropped
  /\ m_paused
  /\ QueueSize(Self) >= 1
  /\ m_dt_std.has
  /\ m_bench_file.is_open
  /\ Len(log_file) >= 1

\* C9: the first Count after a resume is attributed the time since the
\* resume: the paused interval is left out, the sentinel plays no part
C9_ElapsedSinceResume ==
  (lastCount.ran /\ lastCount.after_resume)
    => /\ lastCount.duration = lastCount.wall
       /\ lastCount.duration >= 0

\* a Count after a pause during which the clock advanced
C9_Witness ==
  /\ lastCount.ran
  /\ lastCount.after_resume
  /\ lastCount.after_gap

PauseOrResume == \E state \in {"Paused", "Running"} : OnStateChanged(state)

\* C10: a pause or resume changes the paused flag and last_sample_time only
C10_PauseKeepsWindow ==
  [][\/ UNCHANGED <<m_dt_queue, m_dt_queue_begin, m_dt_queue_end, m_dt_total,
                    m_hz_avg, m_dt_avg, m_dt_std, m_bench_file, m_log_name,
                    m_sample_window_us, log_file>>
     \/ ~PauseOrResume]_vars

\* paused, with samples in the window and the cache filled
C10_Witness ==
  /\ m_paused
  /\ QueueSize(Self) >= 2
  /\ m_dt_std.has
  /\ m_hz_avg # Fin(0)

\* no sample was counted since the last Reset (the constructor's included)
NoCountSinceReset == ~lastCount.ran

\* what the accessors return on a tracker that was just reset
ResetValues ==
  /\ QueueEmpty(Self)
  /\ m_dt_total = ZeroPair
  /\ GetHzAvg(Self) = Fin(0)
  /\ GetDtAvg(Self) = 0
  /\ DtStdValue(Self) = 0
  /\ GetLastRawDt(Self) = 0

\* C11: after a Reset, and until the next Count that is not paused, the
\* window is empty, the totals are zero and GetHzAvg, GetDtAvg, GetDtStd and
\* GetLastRawDt return 0; the Reset sets last_sample_time to its own time
C11_ResetClears ==
  /\ NoCountSinceReset => ResetValues
  /\ [][/\ NoCountSinceReset' => ResetValues'
        /\ m_last_time' = now' \/ ~DoReset]_vars

\* a Reset, at a later time, of a tracker that had counted and was read
C11_Witness ==
  /\ NoCountSinceReset
  /\ counted >= 2
  /\ m_last_time = 16
  /\ m_dt_std = Some(0)

AllEqualMeasurements(seq) ==
  \A i, j \in 1 .. Len(seq) : seq[i].measurement = seq[j].measurement

\* C12: GetDtStd returns 0 on an empty window and on a window whose samples,
\* however many, all carry the same measurement
C12_EqualSamplesNoDeviation ==
  (QueueEmpty(Self) \/ AllEqualMeasurements(QueueSeq(Self))) => DtStdValue(Self) = 0

\* GetDtStd computed 0 over a full window of equal measurements
C12_Witness ==
  /\ QueueSize(Self) = MAX_DT_QUEUE_SIZE - 1
  /\ AllEqualMeasurements(QueueSeq(Self))
  /\ QueueTop(Self).measurement > 0
  /\ m_dt_std = Some(0)

RECURSIVE SumSquaredDeviations(_, _)
SumSquaredDeviations(seq, mean) ==
  IF seq = <<>> THEN 0
  ELSE (Head(seq).measurement - mean) * (Head(seq).measurement - mean)
         + SumSquaredDeviations(Tail(seq), mean)

\* the population standard deviation about mean, in whole time units
PopulationStd(seq, mean) ==
  IF seq = <<>> THEN 0 ELSE ISqrt(SumSquaredDeviations(seq, mean) \div Len(seq))

\* a step that is a Count that ran, or a Reset
IngestOrReset == counted' # counted \/ DoReset

CacheCoherent ==
  m_dt_std.has => m_dt_std.val = PopulationStd(QueueSeq(Self), m_dt_avg)

\* the members GetDtStd reads
StdView(queue, begin, end, avg, std) ==
  [m_dt_queue |-> queue, m_dt_queue_begin |-> begin, m_dt_queue_end |-> end,
   m_dt_avg |-> avg, m_dt_std |-> std]

\* C13: a cached value is the population standard deviation of the window's
\* measurements about the moving average; a Count that ran and a Reset empty
\* the cache; between them GetDtStd keeps returning the same value
C13_CacheCoherent ==
  /\ []CacheCoherent
  /\ [][/\ ~m_dt_std'.has \/ ~IngestOrReset
        /\ \/ DtStdValue(StdView(m_dt_queue', m_dt_queue_begin', m_dt_queue_end',
                                 m_dt_avg', m_dt_std'))
               = DtStdValue(StdView(m_dt_queue, m_dt_queue_begin, m_dt_queue_end,
                                    m_dt_avg, m_dt_std))
           \/ IngestOrReset]_vars

\* a cache filled with a deviation that is not zero
C13_Witness ==
  /\ m_dt_std.has
  /\ m_dt_std.val > 0
  /\ QueueSize(Self) >= 2
  /\ counted >= 3

\* C14: GetLastRawDt returns the measurement of the newest sample counted,
\* and 0 when the window is empty
C14_LastRawIsNewest ==
  /\ QueueEmpty(Self) <=> history = <<>>
  /\ GetLastRawDt(Self) =
       IF history = <<>> THEN 0 ELSE history[Len(history)].data.measurement

\* the end index wrapped to 0: the newest sample is in the last slot, and
\* it differs from the oldest
C14_Witness ==
  /\ m_dt_queue_end = 0
  /\ QueueSize(Self) >= 2
  /\ GetLastRawDt(Self) # QueueTop(Self).measurement
  /\ GetLastRawDt(Self) > 0

\* a notification of a run state other than Paused and Running
IgnoredNotification ==
  \E state \in CoreStates \ {"Paused", "Running"} : OnStateChanged(state)

\* C18: a notification of any run state but Paused and Running leaves the
\* paused flag, last_sample_time, the window, the aggregates and the cache
\* as they were
C18_OtherStatesIgnored ==
  [][UNCHANGED <<trackerVars, log_file>> \/ ~IgnoredNotification]_vars

\* such a notification reached a paused tracker with samples and a cache
C18_Witness ==
  /\ observed.op = "OnStateChanged"
  /\ observed.ret \notin {<<"Paused">>, <<"Running">>}
  /\ m_paused
  /\ m_last_time = TimePointMax
  /\ QueueSize(Self) >= 2
  /\ m_dt_std.has

ReadAccessors == {"GetHzAvg", "GetDtAvg", "GetLastRawDt", "ImPlotPlotLines"}

\* C19: GetHzAvg, GetDtAvg, GetLastRawDt and ImPlotPlotLines leave the
\* window, the indices, the totals, the averages, the cache, the paused flag
\* and last_sample_time as they were
C19_AccessorsReadOnly ==
  [][UNCHANGED <<trackerVars, log_file>> \/ observed'.op \notin ReadAccessors]_vars

\* the plot accessor drew a full, wrapped window
C19_Witness ==
  /\ observed.op = "ImPlotPlotLines"
  /\ Len(observed.ret) = 2 * (MAX_DT_QUEUE_SIZE - 1) + 2
  /\ QueueSize(Self) = MAX_DT_QUEUE_SIZE - 1
  /\ m_dt_queue_end < m_dt_queue_begin

\* C20 as claimed: the window length is at least 1 whether it comes from the
\* override or from the configuration, whatever their values
C20_WindowAtLeastOne == GetSampleWindow(Self, iPerfSampleUSec) >= 1

\* C20 amended: a window length taken from the configuration is the
\* configured value floored at 1; an override is returned as it was given,
\* so the length is at least 1 exactly when the override is
C20_ConfigValueFloored ==
  LET window == GetSampleWindow(Self, iPerfSampleUSec)
  IN /\ m_sample_window_us.has => window = m_sample_window_us.val
     /\ ~m_sample_window_us.has
          => /\ window >= 1
             /\ window = IF iPerfSampleUSec >= 1 THEN iPerfSampleUSec ELSE 1
     /\ observed.op = "GetSampleWindow" => observed.ret = <<window>>

\* GetSampleWindow returned 1 for a configured value below 1
C20_Witness ==
  /\ observed = [op |-> "GetSampleWindow", ret |-> <<1>>]
  /\ ~m_sample_window_us.has
  /\ iPerfSampleUSec < 1

\* a thread is between taking the lock and releasing it
Inside(t) == pc[t].op # "idle" /\ Statement(t) # "lock"

Mutators == {"Count", "Reset", "SetPaused"}
SharedReaders == {"GetHzAvg", "GetDtAvg", "GetLastRawDt", "ImPlotPlotLines"}

\* no operation is part-way through an update of the window
WindowSettled ==
  /\ m_dt_total = SumPairs(QueueSeq(Self))
  /\ QueueSize(Self) < MAX_DT_QUEUE_SIZE
  /\ m_dt_avg = IF QueueEmpty(Self) THEN 0
                ELSE TruncDiv(m_dt_total.measurement, QueueSize(Self))

\* C15: while a thread is inside Count, Reset or SetPaused no other thread
\* is inside any operation, and what a thread inside GetHzAvg, GetDtAvg,
\* GetLastRawDt or ImPlotPlotLines sees is a window no update is part-way
\* through
C15_MutatorsExclusive ==
  \A t \in Threads :
    /\ (Inside(t) /\ pc[t].op \in Mutators) => \A u \in Threads \ {t} : ~Inside(u)
    /\ (Inside(t) /\ pc[t].op \in SharedReaders)
         => /\ \A u \in Threads : Inside(u) => pc[u].op \in SharedReaders
            /\ m_mutex.writer = NoThread
            /\ WindowSettled

\* Count has pushed a sample and not yet added it to the totals, while two
\* other threads wait for the lock, one to read and one to write
C15_Witness ==
  /\ pc["cpu"].op = "Count"
  /\ Statement("cpu") = "total"
  /\ m_dt_total # SumPairs(QueueSeq(Self))
  /\ QueueSize(Self) >= 2
  /\ pc["ui"].op \in SharedReaders /\ Statement("ui") = "lock"
  /\ pc["host"].op = "SetPaused" /\ Statement("host") = "lock"

\* C16: while a thread is inside GetDtStd no other thread is inside any
\* operation: not a second GetDtStd, not Count or Reset, not an accessor
\* under the shared lock
C16_StdExclusive ==
  \A t \in Threads :
    (Inside(t) /\ pc[t].op = "GetDtStd")
      => /\ m_mutex = [writer |-> t, readers |-> {}]
         /\ \A u \in Threads \ {t} : ~Inside(u)

\* GetDtStd is about to fill an empty cache over a window of samples, while
\* a second GetDtStd and a Count wait for the lock
C16_Witness ==
  /\ pc["ui"].op = "GetDtStd"
  /\ Statement("ui") = "compute"
  /\ ~m_dt_std.has
  /\ QueueSize(Self) >= 2
  /\ pc["host"].op = "GetDtStd" /\ Statement("host") = "lock"
  /\ pc["cpu"].op = "Count" /\ Statement("cpu") = "lock"

\* some thread that has called can take its next step
SomeThreadRuns ==
  (\E t \in Threads : pc[t].op # "idle")
    => \E t \in Threads : pc[t].op # "idle" /\ (Statement(t) = "lock" => CanLock(t))

\* a thread takes the lock only as the first statement of its operation,
\* holding nothing
NoNestedLock ==
  \A t \in Threads : Statement(t) = "lock" => pc[t].i = 1 /\ ~Holds(t)

Called(t) == pc[t].op # "idle"
Returned(t) == pc[t] = Idle /\ ~Holds(t)

FailedOpenCount == counted' # counted /\ lastCount'.open_failed

\* the tracker as the same Count leaves it with logging disabled
CountUnlogged ==
  Count(Self, lastCount'.custom, lastCount'.cont, now, lastCount'.window, FALSE, TRUE)

\* C21: a Count that is not paused and whose log file fails to open returns
\* having pushed the sample, updated the totals, the average and the smoothed
\* rate and dropped the cached deviation, exactly as with logging disabled,
\* and the stream that did not open takes no line
C21_LogFailureKeepsIngesting ==
  [][FailedOpenCount =>
       /\ m_dt_queue' = CountUnlogged.m_dt_queue
       /\ m_dt_queue_begin' = CountUnlogged.m_dt_queue_begin
       /\ m_dt_queue_end' = CountUnlogged.m_dt_queue_end
       /\ m_dt_total' = CountUnlogged.m_dt_total
       /\ m_last_time' = now
       /\ m_hz_avg' = CountUnlogged.m_hz_avg
       /\ m_dt_avg' = CountUnlogged.m_dt_avg
       /\ m_dt_std' = None
       /\ m_dt_queue'[DecrementIndex(m_dt_queue_end')] = lastCount'.data
       /\ m_dt_queue_end' # m_dt_queue_begin'
       /\ m_bench_file' = m_bench_file
       /\ log_file' = log_file
       /\ ~m_paused']_vars

C21_Witness ==
  /\ lastCount.ran
  /\ lastCount.open_failed
  /\ lastCount.prior_size >= 1
  /\ QueueSize(Self) >= 2
  /\ ~m_bench_file.is_open
  /\ log_file = OldLog
(***************************************************************************)
(* The window after a Count.  Nothing but Count and Reset touches the ring *)
(* or the totals, so lastCount describes the ring until the next of them.  *)
(***************************************************************************)
\* the samples the loop of lines 71-72 removed in the last Count: those held
\* before, plus the one pushed, less the one the full ring gave up (lines
\* 68-69), less those still held
LoopEvicted ==
  lastCount.prior_size + 1 - (IF lastCount.filled THEN 1 ELSE 0) - QueueSize(Self)

\* C22: after every Count that is not paused, with the window length that
\* Count read (the configuration is read at each Count), the total duration
\* less the oldest sample's duration is below the window length; at least
\* one sample is left; and the loop stops as soon as that holds: whenever it
\* removed a sample, the total with that sample's successor as oldest still
\* reached the window length before the removal
C22_WindowInvariant ==
  /\ [](lastCount.ran
          => /\ QueueSize(Self) >= 1
             /\ m_dt_total.duration - QueueTop(Self).duration < lastCount.window
             /\ LoopEvicted >= 0
             /\ LoopEvicted >= 1 => lastCount.window <= m_dt_total.duration)
  /\ [][counted' # counted
          => /\ m_dt_queue_begin' # m_dt_queue_end'
             /\ m_dt_total'.duration - m_dt_queue'[m_dt_queue_begin'].duration
                  < (IF m_sample_window_us.has THEN m_sample_window_us.val
                     ELSE Max(1, iPerfSampleUSec))]_vars

C22_Witness ==
  /\ lastCount.ran
  /\ ~m_sample_window_us.has
  /\ lastCount.window = 1
  /\ LoopEvicted = 2
  /\ QueueSize(Self) = 1
  /\ \E k \in 1 .. Len(history) : history[k].window = 10
\* C23 as claimed: after every Count that is not paused, the total duration
\* of the window, oldest sample included, is at or above the window length
C23_WindowCovered ==
  lastCount.ran => lastCount.window <= m_dt_total.duration

\* C23: after a Count that is not paused, the total duration, oldest sample
\* included, is at or above the window length whenever the loop removed a
\* sample in that Count, and whenever the total had reached the window
\* length before that Count and the ring was not full; a Count that starts
\* below the window length and removes nothing may end below it
C23_CoveredOnceReached ==
  /\ [](lastCount.ran /\ LoopEvicted >= 1 => lastCount.window <= m_dt_total.duration)
  /\ [][(/\ counted' # counted
         /\ lastCount'.window <= m_dt_total.duration
         /\ ~lastCount'.filled)
          => lastCount'.window <= m_dt_total'.duration]_vars
  /\ [](lastCount.ran /\ m_dt_total.duration < lastCount.window
          => LoopEvicted = 0)

C23_Witness ==
  /\ lastCount.ran
  /\ LoopEvicted = 1
  /\ QueueSize(Self) = 2
  /\ m_dt_total.duration = lastCount.window
(***************************************************************************)
(* The averages.                                                           *)
(***************************************************************************)
\* the sum of the measurements held over their number, as integer ticks divide
WindowMean ==
  IF QueueEmpty(Self) THEN 0
  ELSE SumPairs(QueueSeq(Self)).measurement \div QueueSize(Self)

\* C24: in every state the moving average is the total of the measurements
\* held divided by the number of samples held, as left by the last Count
\* that was not paused, and 0 while the window is empty after Reset; only a
\* Count that is not paused or a Reset changes it
C24_AverageOfWindow ==
  /\ [](GetDtAvg(Self) = WindowMean)
  /\ [](QueueEmpty(Self) <=> ~lastCount.ran)
  /\ [][m_dt_avg' # m_dt_avg => IngestOrReset]_vars

C24_Witness ==
  /\ lastCount.ran
  /\ QueueSize(Self) = 3
  /\ m_dt_total.measurement = 20
  /\ GetDtAvg(Self) = 6
  /\ observed.op = "GetDtAvg"
\* x lies between a and b, ends included
Between(x, a, b) == (a <= x /\ x <= b) \/ (b <= x /\ x <= a)

\* the smoothed rate the last Count left, from the rate before it
EmaFollowsFilter ==
  IF ~IsFinite(lastCount.prior_hz_avg) THEN GetHzAvg(Self) = lastCount.hz
  ELSE IF IsFinite(lastCount.hz)
  THEN /\ IsFinite(GetHzAvg(Self))
       /\ GetHzAvg(Self).v = lastCount.prior_hz_avg.v
            + RoundDiv(lastCount.a.v * (lastCount.hz.v - lastCount.prior_hz_avg.v), DblScale)
       /\ Between(GetHzAvg(Self).v, lastCount.prior_hz_avg.v, lastCount.hz.v)
  ELSE GetHzAvg(Self) = (IF lastCount.a.v = 0 THEN NaN ELSE lastCount.hz)

\* the smoothing factor is 0 for a sample of no duration, grows with the
\* duration over 0.33 window lengths (above 1/2 from ln 2 = 0.6931 such time
\* constants on), and is the double 1.0 from 37.43 of them on
AlphaOfDuration ==
  /\ IsFinite(lastCount.a)
  /\ lastCount.a.v = 0 <=> lastCount.data.duration = 0
  /\ lastCount.a.v = DblScale
       <=> 100 * 100 * lastCount.data.duration >= 3743 * 33 * lastCount.window
  /\ 2 * lastCount.a.v > DblScale
       <=> 100 * 10000 * lastCount.data.duration > 6931 * 33 * lastCount.window

\* C25 as claimed: the smoothing factor of every Count lies in [0, 1)
C25_AlphaBelowOne ==
  lastCount.ran
    => /\ EmaFollowsFilter
       /\ IsFinite(lastCount.a)
       /\ 0 <= lastCount.a.v /\ lastCount.a.v < DblScale

\* C25: after a Count that is not paused, the smoothed rate is that Count's
\* rate if it was not finite before, and otherwise the old value plus a
\* times (rate - old value), with a in [0, 1] (1.0 is reached), derived from
\* the sample's duration and 0.33 window lengths, so a finite smoothed rate
\* and a finite rate give a value between the two, ends included
C25_EmaFilter ==
  lastCount.ran
    => /\ EmaFollowsFilter
       /\ AlphaOfDuration
       /\ 0 <= lastCount.a.v /\ lastCount.a.v <= DblScale

C25_Witness ==
  /\ lastCount.ran
  /\ IsFinite(lastCount.prior_hz_avg)
  /\ IsFinite(lastCount.hz)
  /\ lastCount.a.v = DblScale
  /\ lastCount.hz # lastCount.prior_hz_avg
  /\ GetHzAvg(Self) = lastCount.hz
\* the last Count was the first since construction or Reset
FirstSample == lastCount.ran /\ Len(history) = 1

SameStateNotification ==
  \/ OnStateChanged("Running") /\ ~m_paused
  \/ OnStateChanged("Paused") /\ m_paused

\* C27 as claimed: a notification of the state the tracker is in leaves
\* last_sample_time unchanged
C27_SameStateKeepsAnchor ==
  [][UNCHANGED m_last_time \/ ~SameStateNotification]_vars

\* C27: every Paused notification sets last_sample_time to the sentinel and
\* every Running notification sets it to now, whatever the state before: a
\* Paused notification leaves it unchanged where it is the sentinel already,
\* and a Running notification while Running moves it to now, from where the
\* next sample's elapsed time is counted
C27_EveryNotificationAnchors ==
  /\ [][\/ m_paused' /\ m_last_time' = TimePointMax
        \/ ~OnStateChanged("Paused")]_vars
  /\ [][\/ ~m_paused' /\ m_last_time' = now
        \/ ~OnStateChanged("Running")]_vars
  /\ [](lastCount.ran => lastCount.duration = lastCount.wall)

\* a Count after a Running notification that reached the running tracker
\* later than its last sample
C27_Witness ==
  /\ lastCount.ran
  /\ lastCount.prior_size >= 1
  /\ lastCount.after_running
  /\ lastCount.duration = 0
(***************************************************************************)
(* The plot.                                                               *)
(***************************************************************************)
\* the last step plotted a window that holds samples
Plotted == observed.op = "ImPlotPlotLines" /\ ~QueueEmpty(Self)

\* the x coordinates of the vertices p do not decrease from vertex i on
NonDecreasingFrom(p, i) == \A k \in i .. Len(p) - 1 : p[k][1] <= p[k + 1][1]

\* the vertices p are the step function of the window: two vertices at the
\* height of the newest measurement, at x = 0 and x = elapsed, then for each
\* sample, newest to oldest, two vertices at the height of its measurement,
\* as far apart as steps[k] says
StepVertices(p, elapsed, steps) ==
  LET q == QueueSeq(Self)
      n == Len(q)
  IN /\ Len(p) = 2 * n + 2
     /\ p[1] = <<0, q[n].measurement>>
     /\ p[2] = <<elapsed, q[n].measurement>>
     /\ \A k \in 1 .. n :
          /\ p[2 * k + 1] = <<p[2 * k][1], q[n + 1 - k].measurement>>
          /\ p[2 * k + 2] = <<p[2 * k][1] + steps[k], q[n + 1 - k].measurement>>

\* the durations of the samples held, newest first
Durations ==
  [k \in 1 .. QueueSize(Self) |-> QueueSeq(Self)[QueueSize(Self) + 1 - k].duration]

\* C28 as claimed: Running or Paused, the plot of a window that holds samples
\* starts at x = 0, goes on at a time since the last sample that is not
\* negative, has a step as wide as its duration for each sample, and its x
\* coordinates never decrease
C28_PlotTimeOrdered ==
  Plotted
    => /\ StepVertices(observed.ret, now - m_last_time, Durations)
       /\ observed.ret[2][1] >= 0
       /\ NonDecreasingFrom(observed.ret, 1)

\* C28: the plot of a window that holds samples starts at x = 0 and goes on
\* at x = now - last_sample_time.  While Running that time is not negative,
\* each sample, newest to oldest, adds a step as wide as its duration and as
\* high as its measurement, and x never decreases; while Paused
\* last_sample_time is the sentinel, the second x is far below 0 and the
\* float x stays there for every later vertex
C28_PlotOrderedWhileRunning ==
  Plotted
    => /\ NonDecreasingFrom(observed.ret, 2)
       /\ ~m_paused
            => /\ StepVertices(observed.ret, now - m_last_time, Durations)
               /\ observed.ret[2][1] >= 0
               /\ NonDecreasingFrom(observed.ret, 1)
       /\ m_paused
            => /\ m_last_time = TimePointMax
               /\ StepVertices(observed.ret, now - TimePointMax,
                               [k \in 1 .. QueueSize(Self) |-> 0])
               /\ observed.ret[2][1] < 0

C28_Witness ==
  /\ Plotted
  /\ ~m_paused
  /\ QueueSize(Self) = 3
  /\ observed.ret[2][1] = 16
  /\ observed.ret[8][1] > observed.ret[4][1]
  /\ observed.ret[4][1] > observed.ret[2][1]
(***************************************************************************)
(* The lines of the log file.                                              *)
(***************************************************************************)
\* the step is a Count that is not paused, on a tracker with a log name,
\* with logging enabled
LoggingCount == counted' # counted /\ m_log_name.has /\ bLogRenderTimeToFile

\* the file takes the line of this step's Count after the lines the open
\* stream wrote before; a stream opened in this step starts the file anew
LineAppended ==
  log_file' = Append(IF m_bench_file.is_open THEN log_file ELSE <<>>,
                     FormatLine(lastCount'.data.measurement))

\* the stream is opened by a Count that logs and finds it closed, unless the
\* open fails, and by no other step; once open it stays open
OpenedOnFirstUse ==
  /\ m_bench_file' # m_bench_file
       => LoggingCount /\ ~m_bench_file.is_open /\ m_bench_file'.is_open
  /\ (LoggingCount /\ ~lastCount'.open_failed) => m_bench_file'.is_open

\* C29 as claimed: every Count that is not paused and runs with a log name
\* and logging enabled adds its line, and no other step adds one
C29_OneLinePerCount ==
  [][/\ LoggingCount => LineAppended
     /\ ~LoggingCount => log_file' = log_file
     /\ OpenedOnFirstUse]_vars

\* C29: every Count that is not paused and runs with a log name and logging
\* enabled, with the stream open (before it, or opened by it), adds one line
\* with its measurement at the end of the file; a Count whose open fails, a
\* paused Count, a Count without a log name or with logging disabled, and
\* every other operation add none; the stream is opened by the first Count
\* that logs and is not opened again while open
C29_OneLinePerLoggedCount ==
  [][/\ (LoggingCount /\ m_bench_file'.is_open) => LineAppended
     /\ ~(LoggingCount /\ m_bench_file'.is_open) => log_file' = log_file
     /\ OpenedOnFirstUse]_vars

\* three Counts logged in a row, after a Count that added no line
C29_Witness ==
  /\ m_bench_file.is_open
  /\ counted = 4
  /\ Len(history) = 4
  /\ log_file = [k \in 1 .. 3 |-> FormatLine(history[k + 1].data.measurement)]
  /\ log_file[1] # log_file[2]

\* C30 as claimed: the lines the file held before the tracker's first write
\* are kept, and the tracker's lines come after them
C30_PriorLinesKept ==
  m_log_name.has
    => /\ Len(OldLog) <= Len(log_file)
       /\ SubSeq(log_file, 1, Len(OldLog)) = OldLog
       /\ m_bench_file.is_open => Len(log_file) > Len(OldLog)

\* C30: the file is opened with std::ios_base::out, which creates it or
\* empties it: the lines it held are there until the stream opens, and from
\* then on the file holds the lines of the tracker's Counts and no other
C30_OpenTruncates ==
  /\ [](m_log_name.has /\ ~m_bench_file.is_open => log_file = OldLog)
  /\ [](m_bench_file.is_open
          => /\ m_log_name.has
             /\ 1 <= Len(log_file) /\ Len(log_file) <= counted
             /\ \A k \in 1 .. Len(log_file) : log_file[k] \notin {OldLog[j] : j \in 1 .. Len(OldLog)})
  /\ [][(~m_bench_file.is_open /\ m_bench_file'.is_open)
          => log_file' = <<FormatLine(lastCount'.data.measurement)>>]_vars

C30_Witness ==
  /\ m_bench_file.is_open
  /\ lastCount.ran
  /\ lastCount.data.measurement = 16
  /\ log_file = <<FormatLine(16)>>
  /\ OldLog # <<>>
(***************************************************************************)
(* The clock anchor and the sign of the durations.                         *)
(***************************************************************************)
\* C31: while the tracker is not paused last_sample_time is not the sentinel
\* and not after the clock, so the elapsed time of every Count that is not
\* paused lies between 0 and the clock value; with measurements that are not
\* negative, every duration the ring stores and the total duration are not
\* negative
C31_ElapsedNotNegative ==
  /\ ~m_paused => /\ m_last_time # TimePointMax
                  /\ m_last_time <= now
  /\ lastCount.ran => /\ 0 <= lastCount.duration
                      /\ lastCount.duration <= now
                      /\ 0 <= lastCount.data.duration
  /\ \A i \in DOMAIN m_dt_queue : m_dt_queue[i].duration >= 0
  /\ m_dt_total.duration >= 0

\* running again after a pause the clock ran through, with the sample counted
\* since then in the window next to an older one
C31_Witness ==
  /\ ~m_paused
  /\ lastCount.ran
  /\ lastCount.after_resume
  /\ lastCount.after_gap
  /\ m_last_time = now
  /\ now = MaxTime
  /\ QueueSize(Self) >= 2
  /\ m_dt_total.duration > 0
(***************************************************************************)
(* Reset during a pause.                                                   *)
(***************************************************************************)
\* the tracker is paused and was Reset since the pause began
ResetWhilePaused == anchor.kind = "pause" /\ anchor.reset_at >= 0

\* C32: Reset leaves the paused flag as it is; after a Reset made while
\* paused the tracker stays paused with an empty window, whatever is called,
\* until a Running notification; and the first Count after that resume has
\* the time since the resume as its elapsed time, not the time since the
\* Reset
C32_ResetKeepsPause ==
  /\ [][UNCHANGED m_paused \/ ~DoReset]_vars
  /\ [](ResetWhilePaused => m_paused /\ QueueEmpty(Self))
  /\ [][\/ ~ResetWhilePaused
        \/ OnStateChanged("Running")
        \/ /\ m_paused' /\ m_dt_queue_begin' = m_dt_queue_end'
           /\ UNCHANGED <<counted, m_dt_queue, m_dt_total, m_hz_avg, m_dt_avg>>]_vars
  /\ [](lastCount.ran /\ lastCount.since_reset >= 0
          => /\ lastCount.prior_size = 0
             /\ lastCount.after_resume
             /\ lastCount.duration = lastCount.wall
             /\ lastCount.duration <= lastCount.since_reset)

\* a Count right after the resume from a pause in which the tracker was
\* Reset and the clock advanced afterwards
C32_Witness ==
  /\ lastCount.ran
  /\ lastCount.since_reset = MaxTime
  /\ lastCount.duration = 0
  /\ lastCount.custom = None
  /\ QueueSize(Self) = 1
  /\ counted >= 2
\* the heights of the vertices p after the first two, pair by pair
StepHeights(p) == [j \in 1 .. (Len(p) - 2) \div 2 |-> <<p[2 * j + 1][2], p[2 * j + 2][2]>>]

\* the measurements of the samples held, newest first, each twice
NewestFirstTwice ==
  [j \in 1 .. QueueSize(Self) |->
     <<QueueSeq(Self)[QueueSize(Self) + 1 - j].measurement,
       QueueSeq(Self)[QueueSize(Self) + 1 - j].measurement>>]

\* C33: a plot of an empty window hands over no vertex; a plot of a window
\* of k >= 1 samples hands over 2k + 2 vertices, the pairs after the first
\* two being the samples held, each once, newest to oldest, also where the
\* window wraps around the end of the ring; k is below the ring's capacity,
\* so the vertices fit the 2 * MAX_DT_QUEUE_SIZE + 2 entries of x and y
C33_PlotVertexCount ==
  observed.op = "ImPlotPlotLines"
    => /\ QueueEmpty(Self) <=> observed.ret = <<>>
       /\ ~QueueEmpty(Self)
            => /\ Len(observed.ret) = 2 * QueueSize(Self) + 2
               /\ StepHeights(observed.ret) = NewestFirstTwice
       /\ QueueSize(Self) <= MAX_DT_QUEUE_SIZE - 1
       /\ Len(observed.ret) <= 2 * MAX_DT_QUEUE_SIZE + 2

\* a plot of a full window whose newest sample is in slot 0 and whose older
\* samples are in the last slots of the ring, all three different
C33_Witness ==
  /\ observed.op = "ImPlotPlotLines"
  /\ m_dt_queue_end = 1
  /\ m_dt_queue_begin = MAX_DT_QUEUE_SIZE - 2
  /\ QueueSize(Self) = MAX_DT_QUEUE_SIZE - 1
  /\ Len(observed.ret) = 2 * MAX_DT_QUEUE_SIZE
  /\ StepHeights(observed.ret) = <<<<0, 0>>, <<4, 4>>, <<16, 16>>>>
====
